---------------------------- MODULE Spec2Model ----------------------------
(***************************************************************************)
(* Monte Carlo investment-risk simulator of the ml-api service             *)
(* (services/ml-api/app/modules/simulator.py).                             *)
(*                                                                         *)
(* Number representation.  Amounts are whole USD; every amount parameter   *)
(* is a multiple of 100 so that the +-15 % noise factor and the 10 %       *)
(* close-down charge are exact.  Probabilities, uniform draws, the noise   *)
(* factor and the growth rate are held in hundredths (0.05 is 5).          *)
(* Percentiles are held in hundredths of a USD (linear interpolation at    *)
(* q/100 of the way), rounded values in the unit the code rounds to.       *)
(*                                                                         *)
(* Random source.  numpy's generator is a deterministic function of its    *)
(* seed: the model leaves the values it produces open (each new position   *)
(* of a seed's sequence is chosen freely from Raw) and remembers them in   *)
(* `stream`, so that a generator created later from the same seed reads    *)
(* the same sequence again.                                                *)
(***************************************************************************)
EXTENDS Integers, Sequences, FiniteSets

\* ------------------------------------------------------------------ bounds
\* n_simulations, mission_duration_years, and the trial-years of one batch
\* (n_simulations * mission_duration_years, doubled when clear_days_sigma > 0
\* makes the clear-days draw matter).
MaxSims == 3
MaxYears == 2
MaxWork == 6
\* The same product for a call that a later call repeats or resizes.
MaxReplayWork == 2
\* The same product for the call a request leads to.
MaxServiceWork == 2
\* The least n_simulations a request may ask for: ge=100 in the schema, scaled
\* down with n_simulations.
MinSims == 1
\* The sizes of the batches whose rates are classified on their own.
MinVerdictSims == 1000
MaxVerdictSims == 1003
\* The cap on the tracked trials: min(n_simulations, 2000) in the source,
\* scaled down with n_simulations so that calls above and below it both occur.
FAN_CAP == 2

\* ------------------------------------------------- constants of the program
RNG_SEED == 42
FAN_SEED == 99
HIST_BINS == 30

Seeds == {RNG_SEED, FAN_SEED}

\* ------------------------------------------------------------ random source
\* What one draw of the bit generator can be.
Raw == {0, 1}

\* Faulty variant of rng_random: a uniform draw that can return 1.0.
rng_random_closed(raw) == 100 * raw

\* rng.random(): a float in [0, 1), in hundredths.
rng_random(raw) == 50 * raw

\* The standard normal variate behind rng.normal.
standard_normal(raw) == 4 * raw - 3

\* rng.normal(loc, scale) = loc + scale * standard_normal()
rng_normal(loc, scale, raw) == loc + scale * standard_normal(raw)

\* rng.uniform(low, high) = low + (high - low) * random(), in hundredths.
rng_uniform(low, high, raw) == low + ((high - low) * rng_random(raw)) \div 100

\* ------------------------------------------------------------- parameters
Probs == {0, 50, 100}

AllParams ==
    [ total_budget_usd            : {100000},
      launch_cost_usd             : {20000},
      satellite_cost_usd          : {30000},
      ops_cost_per_year_usd       : {7000},
      launch_failure_prob         : Probs,
      annual_failure_prob         : Probs,
      revenue_per_clear_day_usd   : {23000},
      clear_days_mu               : {2},
      clear_days_sigma            : {0, 1},
      revenue_growth_pct_per_year : {100},
      mission_duration_years      : 1..MaxYears,
      n_simulations               : 1..MaxSims ]

Work(p) == p.n_simulations * p.mission_duration_years * (1 + p.clear_days_sigma)

\* The arguments of a single call.
ParamSpace == { p \in AllParams : Work(p) <= MaxWork }

\* The arguments of a call that is repeated.
ReplayParamSpace ==
    { p \in AllParams : /\ Work(p) <= MaxReplayWork
                        /\ p.launch_failure_prob >= 50
                        /\ p.annual_failure_prob >= 50 }


\* ------------------------------------------------------------------ state
VARIABLES
    pc,                 \* where the call of compute_simulation stands
    params,             \* the arguments of the call
    calls_left,         \* calls the client will still make after this one
    stream,             \* seed -> the values that seed's generator has produced
    rng,                \* run_monte_carlo: [seed, pos] of its generator
    i,                  \* run_monte_carlo: trial index
    year,               \* run_monte_carlo: year index of the inner loop
    remaining_budget,
    cumulative_revenue,
    revenues,           \* the year_revenue values the trial has accrued so far
    satellite_alive,
    clear_days,
    net_profits,        \* the outcome array (trials written so far)
    launch_failed,      \* the number of trials of the batch that failed at launch
    stats,              \* percentiles, rates and histogram of compute_simulation
    fan_rng,            \* _build_fan_chart: [seed, pos] of its generator
    fan_i,
    fan_year,
    cumulative,
    alive,
    yearly_profits,     \* rows of the tracked trials written so far
    fan_draws,          \* the values each tracked trial has drawn (kept only
                        \* for calls that are compared with another call)
    fan_chart,
    result,             \* what the call returned
    history,            \* the calls that a later call follows: arguments,
                        \* outcome array and result of each
    request,            \* run_simulation: the body of the POST
    response,           \* run_simulation: what the client receives
    sb,                 \* whether the Supabase client _sb is configured
    saved               \* the rows of the table simulation_results

vars == << pc, params, calls_left, stream, rng, i, year, remaining_budget,
           cumulative_revenue, revenues, satellite_alive, clear_days, net_profits, stats,
           fan_rng, fan_i, fan_year, cumulative, alive, yearly_profits,
           fan_draws, fan_chart, result, history,
           request, response, sb, saved, launch_failed >>

mc_locals == << i, year, remaining_budget, cumulative_revenue, revenues,
                satellite_alive,
                clear_days, net_profits >>
fan_locals == << fan_i, fan_year, cumulative, alive, yearly_profits,
                 fan_draws >>

service == << request, response, sb, saved >>

NoValue == "none"


\* Faulty variant of default_rng: one generator for the whole module, whatever
\* seed is asked for; each builder goes on where the last draw left it.
default_rng_global(seed) ==
    [seed |-> 42, pos |-> Len(stream[42]), out |-> NoValue]

\* Faulty variant of default_rng: one generator per seed shared by all calls, which
\* goes on where the last call left it.
default_rng_shared(seed) ==
    [seed |-> seed, pos |-> Len(stream[seed]), out |-> NoValue]

\* np.random.default_rng(seed): a new generator at the start of the seed's
\* sequence.
\* pos counts the values produced, out is the last of them.
default_rng(seed) == [seed |-> seed, pos |-> 0, out |-> NoValue]

\* The value the generator g produces next is raw: a position already produced
\* for this seed repeats its value, a new one is free.
Produces(g, raw) ==
    IF g.pos < Len(stream[g.seed])
    THEN raw = stream[g.seed][g.pos + 1]
    ELSE raw \in Raw

\* The sequences after g has produced raw (a value is remembered only while a
\* later call can still create a generator that reads it).
Produced(g, raw) ==
    IF g.pos < Len(stream[g.seed]) \/ calls_left = 0
    THEN stream
    ELSE [stream EXCEPT ![g.seed] = Append(@, raw)]

\* Faulty variant of Advance: each draw uses up two values of the sequence.
Advance_twice(g, raw) == [g EXCEPT !.pos = @ + 2, !.out = raw]

\* The generator after it has produced raw.
Advance(g, raw) == [g EXCEPT !.pos = @ + 1, !.out = raw]

\* ------------------------------------------------------------ arithmetic
Max(a, b) == IF a >= b THEN a ELSE b
Min(a, b) == IF a <= b THEN a ELSE b

total_investment_of(p) == p.launch_cost_usd + p.satellite_cost_usd

\* amount * (1 + revenue_growth_pct_per_year) ** y: the rate is in hundredths,
\* so each of the y factors is (100 + rate) / 100.
RECURSIVE Grown(_, _, _)
Grown(amount, rate, y) ==
    IF y = 0 THEN amount
    ELSE Grown((amount * (100 + rate)) \div 100, rate, y - 1)

\* Faulty variant of year_revenue_of: the growth exponent counts years from 1.
year_revenue_of_one_based(p, y, days, noise) ==
    (Grown(days * p.revenue_per_clear_day_usd, p.revenue_growth_pct_per_year,
           y + 1) * noise) \div 100

\* year_revenue of lines 98-102 for the clear days and the noise factor drawn.
year_revenue_of(p, y, days, noise) ==
    (Grown(days * p.revenue_per_clear_day_usd, p.revenue_growth_pct_per_year, y)
        * noise) \div 100

\* Faulty variant of launch_fails: a draw equal to the probability fails too.
launch_fails_or_equal(p, u) == u <= p.launch_failure_prob

\* Lines 74 and 251: the launch fails when the draw u is below the probability.
launch_fails(p, u) == u < p.launch_failure_prob

\* Faulty variant of annual_fails: the yearly check compares with the launch risk.
annual_fails_launch_prob(p, u) == u < p.launch_failure_prob

\* Lines 91 and 261: the asset dies in the year when the draw u is below the
\* probability.
annual_fails(p, u) == u < p.annual_failure_prob

\* Faulty variant of launch_failure_outcome: the operating cost of the whole mission
\* is charged to a trial that never launched.
launch_failure_outcome_charged(p) ==
    -total_investment_of(p)
        - (p.ops_cost_per_year_usd * p.mission_duration_years)

\* Line 76: the outcome of a trial that fails at launch.
launch_failure_outcome(p) == -total_investment_of(p)

\* Faulty variant of net_profit_of: the operating cost is charged for the years the
\* yearly loop has run, not for the whole mission.
net_profit_of_elapsed(p, revenue) ==
    revenue - total_investment_of(p) - (p.ops_cost_per_year_usd * year)

\* Faulty variant of net_profit_of: the operating cost of the years the loop
\* has run is deducted on top of that of the whole mission.
net_profit_of_double(p, revenue) ==
    revenue - total_investment_of(p)
        - (p.ops_cost_per_year_usd * p.mission_duration_years)
        - (p.ops_cost_per_year_usd * year)

\* Faulty variant of net_profit_of: the costs charged to a trial are limited
\* to the budget.
net_profit_of_within_budget(p, revenue) ==
    revenue - Min(total_investment_of(p)
                      + p.ops_cost_per_year_usd * p.mission_duration_years,
                  p.total_budget_usd)

\* Line 107: the scalar outcome of a launched trial.
net_profit_of(p, revenue) ==
    revenue - total_investment_of(p)
        - (p.ops_cost_per_year_usd * p.mission_duration_years)

\* Faulty variant of alive_after_failure: the flag is not cleared.
alive_after_failure_kept == TRUE

\* Lines 92 and 262: satellite_alive = False, alive = False.
alive_after_failure == FALSE

\* Faulty variant of death_year_value: the year of the death costs nothing.
death_year_value_free(p, c) == c

\* Line 263: cumulative -= ops_cost_per_year_usd in the year of the death.
death_year_value(p, c) == c - p.ops_cost_per_year_usd

\* Faulty variant of clear_days_of: a negative draw is kept.
clear_days_of_unclamped(p, raw) ==
    rng_normal(p.clear_days_mu, p.clear_days_sigma, raw)

\* Lines 97 and 266: max(0.0, rng.normal(clear_days_mu, clear_days_sigma)).
clear_days_of(p, raw) ==
    Max(0, rng_normal(p.clear_days_mu, p.clear_days_sigma, raw))

\* Faulty variant of batch_seed: the seed depends on the size of the batch.
batch_seed_by_size(p) ==
    IF p.n_simulations % 2 = 0 THEN RNG_SEED ELSE FAN_SEED

\* Lines 61 and 135-148: compute_simulation passes no rng_seed, so the batch
\* is seeded with the default.
batch_seed(p) == RNG_SEED

\* Faulty variant of batch_trials: the batch stops at the cap of the tracked
\* trials.
batch_trials_capped(p) == Min(p.n_simulations, FAN_CAP)

\* Line 72: range(n_simulations), the trials of the batch.
batch_trials(p) == p.n_simulations

\* --------------------------------------------------------------- initial
Idle ==
    /\ rng = NoValue /\ i = NoValue /\ year = NoValue
    /\ remaining_budget = NoValue /\ cumulative_revenue = NoValue
    /\ revenues = NoValue
    /\ satellite_alive = NoValue /\ clear_days = NoValue
    /\ net_profits = NoValue /\ stats = NoValue
    /\ fan_rng = NoValue /\ fan_i = NoValue /\ fan_year = NoValue
    /\ cumulative = NoValue /\ alive = NoValue /\ yearly_profits = NoValue
    /\ fan_draws = NoValue
    /\ fan_chart = NoValue /\ result = NoValue
    /\ launch_failed = NoValue

\* compute_simulation is called directly: there is no request.
NoService ==
    /\ request = NoValue /\ response = NoValue
    /\ sb = FALSE /\ saved = << >>

Init ==
    /\ pc = "call"
    /\ params \in ParamSpace
    /\ calls_left = 0
    /\ stream = [s \in Seeds |-> << >>]
    /\ history = << >>
    /\ Idle
    /\ NoService

\* ------------------------------------------------------- run_monte_carlo
\* compute_simulation calls run_monte_carlo (lines 135-148), which creates its
\* generator and the zeroed outcome array (lines 67-70).
Call ==
    /\ pc = "call"
    /\ pc' = "mc_trial"
    /\ rng' = default_rng(batch_seed(params))
    /\ net_profits' = [k \in 1..params.n_simulations |-> 0]
    /\ i' = 0
    /\ UNCHANGED << params, calls_left, stream, year, remaining_budget,
                    cumulative_revenue, revenues, satellite_alive, clear_days, stats,
                    fan_rng, fan_locals, fan_chart, result, history >>
    /\ UNCHANGED service
    /\ launch_failed' = 0

\* Lines 74-77: the launch draw is below launch_failure_prob.
MCLaunchFail ==
    /\ pc = "mc_trial" /\ i < batch_trials(params)
    /\ \E raw \in Raw :
        /\ Produces(rng, raw)
        /\ launch_fails(params, rng_random(raw))
        /\ stream' = Produced(rng, raw)
        /\ rng' = Advance(rng, raw)
    /\ net_profits' = [net_profits EXCEPT ![i + 1] = launch_failure_outcome(params)]
    /\ i' = i + 1
    /\ UNCHANGED << pc, params, calls_left, year, remaining_budget,
                    cumulative_revenue, revenues, satellite_alive, clear_days, stats,
                    fan_rng, fan_locals, fan_chart, result, history >>
    /\ UNCHANGED service
    /\ launch_failed' = launch_failed + 1

\* Lines 74, 80-82: the launch succeeds and the yearly loop starts.
MCLaunchOk ==
    /\ pc = "mc_trial" /\ i < batch_trials(params)
    /\ \E raw \in Raw :
        /\ Produces(rng, raw)
        /\ ~launch_fails(params, rng_random(raw))
        /\ stream' = Produced(rng, raw)
        /\ rng' = Advance(rng, raw)
    /\ remaining_budget' = params.total_budget_usd - total_investment_of(params)
    /\ cumulative_revenue' = 0
    /\ revenues' = << >>
    /\ satellite_alive' = TRUE
    /\ year' = 0
    /\ pc' = "mc_year"
    /\ UNCHANGED << params, calls_left, i, clear_days, net_profits, stats,
                    fan_rng, fan_locals, fan_chart, result, history >>
    /\ UNCHANGED service
    /\ UNCHANGED launch_failed

\* Lines 91-94: the annual failure draw is below annual_failure_prob.
MCYearFail ==
    /\ pc = "mc_year" /\ year < params.mission_duration_years
    /\ satellite_alive
    /\ \E raw \in Raw :
        /\ Produces(rng, raw)
        /\ annual_fails(params, rng_random(raw))
        /\ stream' = Produced(rng, raw)
        /\ rng' = Advance(rng, raw)
    /\ satellite_alive' = alive_after_failure
    /\ remaining_budget' = remaining_budget - params.ops_cost_per_year_usd
    /\ year' = year + 1
    /\ UNCHANGED << pc, params, calls_left, i, cumulative_revenue, revenues, clear_days,
                    net_profits, stats, fan_rng, fan_locals, fan_chart, result,
                    history >>
    /\ UNCHANGED service
    /\ UNCHANGED launch_failed

\* Line 91: the asset survives the annual failure check.
MCYearSurvive ==
    /\ pc = "mc_year" /\ year < params.mission_duration_years
    /\ satellite_alive
    /\ \E raw \in Raw :
        /\ Produces(rng, raw)
        /\ ~annual_fails(params, rng_random(raw))
        /\ stream' = Produced(rng, raw)
        /\ rng' = Advance(rng, raw)
    /\ pc' = "mc_clear"
    /\ UNCHANGED << params, calls_left, mc_locals, stats, fan_rng, fan_locals,
                    fan_chart, result, history >>
    /\ UNCHANGED service
    /\ UNCHANGED launch_failed

\* Line 97: clear_days = max(0.0, rng.normal(mu, sigma)).
MCClearDays ==
    /\ pc = "mc_clear"
    /\ \E raw \in Raw :
        /\ Produces(rng, raw)
        /\ clear_days' = clear_days_of(params, raw)
        /\ stream' = Produced(rng, raw)
        /\ rng' = Advance(rng, raw)
    /\ pc' = "mc_noise"
    /\ UNCHANGED << params, calls_left, i, year, remaining_budget,
                    cumulative_revenue, revenues, satellite_alive, net_profits, stats,
                    fan_rng, fan_locals, fan_chart, result, history >>
    /\ UNCHANGED service
    /\ UNCHANGED launch_failed

\* Lines 98-105: the year's revenue with its noise factor, and the year ends.
MCNoise ==
    /\ pc = "mc_noise"
    /\ \E raw \in Raw :
        /\ Produces(rng, raw)
        /\ cumulative_revenue' = cumulative_revenue
              + year_revenue_of(params, year, clear_days, rng_uniform(85, 115, raw))
        /\ revenues' = Append(revenues,
              year_revenue_of(params, year, clear_days, rng_uniform(85, 115, raw)))
        /\ stream' = Produced(rng, raw)
        /\ rng' = Advance(rng, raw)
    /\ remaining_budget' = remaining_budget - params.ops_cost_per_year_usd
    /\ year' = year + 1
    /\ pc' = "mc_year"
    /\ UNCHANGED << params, calls_left, i, satellite_alive, clear_days,
                    net_profits, stats, fan_rng, fan_locals, fan_chart, result,
                    history >>
    /\ UNCHANGED service
    /\ UNCHANGED launch_failed

\* Lines 85-88 and 107: a year that finds the asset dead charges the close-down
\* cost and leaves the loop; the outcome is written.
MCCloseDown ==
    /\ pc = "mc_year" /\ year < params.mission_duration_years
    /\ ~satellite_alive
    /\ remaining_budget' = remaining_budget - (params.ops_cost_per_year_usd \div 10)
    /\ net_profits' = [net_profits EXCEPT
                          ![i + 1] = net_profit_of(params, cumulative_revenue)]
    /\ i' = i + 1
    /\ pc' = "mc_trial"
    /\ UNCHANGED << params, calls_left, stream, rng, year, cumulative_revenue, revenues,
                    satellite_alive, clear_days, stats, fan_rng, fan_locals,
                    fan_chart, result, history >>
    /\ UNCHANGED service
    /\ UNCHANGED launch_failed

\* Line 107: the yearly loop has run all its years; the outcome is written.
MCTrialEnd ==
    /\ pc = "mc_year" /\ year = params.mission_duration_years
    /\ net_profits' = [net_profits EXCEPT
                          ![i + 1] = net_profit_of(params, cumulative_revenue)]
    /\ i' = i + 1
    /\ pc' = "mc_trial"
    /\ UNCHANGED << params, calls_left, stream, rng, year, remaining_budget,
                    cumulative_revenue, revenues, satellite_alive, clear_days, stats,
                    fan_rng, fan_locals, fan_chart, result, history >>
    /\ UNCHANGED service
    /\ UNCHANGED launch_failed

\* ------------------------------------------------------------ statistics
Range(s) == {s[k] : k \in DOMAIN s}

\* How many elements of the array satisfy P (np.mean of a boolean array times n).
Count(s, P(_)) == Cardinality({k \in DOMAIN s : P(s[k])})

RECURSIVE InsertSorted(_, _)
InsertSorted(s, x) ==
    IF s = << >> THEN << x >>
    ELSE IF x <= Head(s) THEN << x >> \o s
    ELSE << Head(s) >> \o InsertSorted(Tail(s), x)

\* Faulty variant of Sorted: the array is used in trial order.
Unsorted(s) == s

\* np.sort, as np.percentile applies it
RECURSIVE Sorted(_)
Sorted(s) == IF s = << >> THEN << >> ELSE InsertSorted(Sorted(Tail(s)), Head(s))

\* np.percentile(a, q), default (linear) method, in hundredths of a's unit:
\* the virtual index q/100 * (n - 1) lies rem/100 of the way from lo to lo + 1.
np_percentile(a, q) ==
    LET s   == Sorted(a)
        n   == Len(s)
        pos == q * (n - 1)
        lo  == pos \div 100
        rem == pos % 100
        hi  == Min(lo + 1, n - 1)
    IN  100 * s[lo + 1] + rem * (s[hi + 1] - s[lo + 1])

\* Python's round(): the nearest multiple, a tie going to the even one.
\* num / den rounded to an integer (den > 0).
round_half_even(num, den) ==
    LET q == num \div den
        r == num % den
    IN  IF 2 * r < den THEN q
        ELSE IF 2 * r > den THEN q + 1
        ELSE IF q % 2 = 0 THEN q ELSE q + 1

\* round(x / 1_000_000, 3) of an amount given in 1/scale USD: thousandths of
\* a million, that is thousands of USD.
round_millions(x, scale) == round_half_even(x, scale * 1000)

SeqMin(a) == CHOOSE x \in Range(a) : \A y \in Range(a) : x <= y
SeqMax(a) == CHOOSE x \in Range(a) : \A y \in Range(a) : x >= y

\* np.histogram(a, bins): the range is (min, max), widened by 0.5 on both
\* sides when they are equal.  Doubled, to stay in integers.
hist_first2(a) == 2 * SeqMin(a) - (IF SeqMin(a) = SeqMax(a) THEN 1 ELSE 0)
hist_last2(a)  == 2 * SeqMax(a) + (IF SeqMin(a) = SeqMax(a) THEN 1 ELSE 0)

\* bin_edges[k], k = 0..bins, of np.linspace(first, last, bins + 1),
\* in 1/(2 * bins) USD.
bin_edge(a, bins, k) ==
    bins * hist_first2(a) + k * (hist_last2(a) - hist_first2(a))

\* Faulty variant of bin_index: the largest value is not put into the last bin.
bin_index_open(a, bins, x) ==
    ((2 * x - hist_first2(a)) * bins) \div (hist_last2(a) - hist_first2(a))

\* The bin (0-based) np.histogram counts x in: equal-width bins, closed on the
\* left, the last one closed on both sides.
bin_index(a, bins, x) ==
    Min(bins - 1,
        ((2 * x - hist_first2(a)) * bins) \div (hist_last2(a) - hist_first2(a)))

\* counts[k] of np.histogram, k = 0..bins-1
bin_count(a, bins, k) == Count(a, LAMBDA x : bin_index(a, bins, x) = k)

\* Lines 164-174.
histogram_of(a, n_simulations) ==
    [ b \in 1..HIST_BINS |->
        [ bin_start |-> round_millions(bin_edge(a, HIST_BINS, b - 1), 2 * HIST_BINS),
          bin_end   |-> round_millions(bin_edge(a, HIST_BINS, b), 2 * HIST_BINS),
          count     |-> bin_count(a, HIST_BINS, b - 1),
          pct       |-> round_half_even(bin_count(a, HIST_BINS, b - 1) * 10000,
                                        n_simulations),
          is_profit |-> bin_edge(a, HIST_BINS, b - 1) > 0 ] ]

\* Faulty variant of profitable_count: every outcome other than zero counts.
profitable_count_nonzero(a) == Count(a, LAMBDA x : x # 0)

\* Line 160: the trials counted as profitable.
profitable_count(a) == Count(a, LAMBDA x : x > 0)

\* Faulty variant of total_loss_count: an outcome of exactly -total_investment
\* is not counted.
total_loss_count_strict(a, p) == Count(a, LAMBDA x : x < -total_investment_of(p))

\* Line 161: the trials counted as a total loss.
total_loss_count(a, p) == Count(a, LAMBDA x : x <= -total_investment_of(p))

\* Lines 150-174: percentiles (hundredths of a USD), the two rates (as counts
\* out of n, the rate being 100 * count / n) and the histogram.
stats_of(a, p) ==
    [ p5  |-> np_percentile(a, 5),
      p10 |-> np_percentile(a, 10),
      p25 |-> np_percentile(a, 25),
      p50 |-> np_percentile(a, 50),
      p75 |-> np_percentile(a, 75),
      p90 |-> np_percentile(a, 90),
      p95 |-> np_percentile(a, 95),
      profitable |-> profitable_count(a),
      total_loss |-> total_loss_count(a, p),
      histogram  |-> histogram_of(a, p.n_simulations) ]

\* run_monte_carlo returns the outcome array (line 109) and compute_simulation
\* derives the statistics from it (lines 150-174).
ComputeStats ==
    /\ pc = "mc_trial" /\ i = batch_trials(params)
    /\ stats' = stats_of(net_profits, params)
    /\ rng' = NoValue /\ i' = NoValue /\ year' = NoValue
    /\ remaining_budget' = NoValue /\ cumulative_revenue' = NoValue
    /\ revenues' = NoValue
    /\ satellite_alive' = NoValue /\ clear_days' = NoValue
    /\ history' = IF calls_left > 0
                   THEN Append(history, [ params   |-> params,
                                          outcomes |-> net_profits,
                                          drawn    |-> NoValue,
                                          result   |-> NoValue ])
                   ELSE history
    /\ pc' = "fan_call"
    /\ UNCHANGED << params, calls_left, stream, net_profits, fan_rng,
                    fan_locals, fan_chart, result >>
    /\ UNCHANGED service
    /\ UNCHANGED launch_failed

\* ------------------------------------------------------- _build_fan_chart
\* Faulty variant of fan_n_simulations: the cap is not applied.
fan_n_simulations_uncapped(p) == p.n_simulations

\* Line 179: the number of tracked trials compute_simulation asks for.
fan_n_simulations(p) == Min(p.n_simulations, FAN_CAP)

\* Faulty variant of initial_row: column 0 is left at zero.
zero_row(p) == [ y \in 1..(p.mission_duration_years + 1) |-> 0 ]

\* Whether this call is one of several that are compared with each other.
Compared == calls_left > 0 \/ history # << >>

\* The values drawn by the tracked trials, after trial t (1-based) drew raw.
Drawn(draws, t, raw) ==
    IF Compared THEN [draws EXCEPT ![t] = Append(@, raw)] ELSE draws

\* Lines 245-248: a row of the zeroed matrix, its slot 0 set to
\* -total_investment.
initial_row(p) ==
    [ y \in 1..(p.mission_duration_years + 1) |->
        IF y = 1 THEN -total_investment_of(p) ELSE 0 ]

\* Lines 178-188 and 244-248: the call creates the generator and the zeroed
\* matrix, whose column 0 is set to -total_investment.  The outcome array is
\* not read after line 174: the model forgets it here.
FanCall ==
    /\ pc = "fan_call"
    /\ fan_rng' = default_rng(FAN_SEED)
    /\ yearly_profits' =
          [ t \in 1..fan_n_simulations(params) |-> initial_row(params) ]
    /\ fan_i' = 0
    /\ fan_draws' = IF Compared
                     THEN [ t \in 1..fan_n_simulations(params) |-> << >> ]
                     ELSE << >>
    /\ net_profits' = NoValue
    /\ pc' = "fan_trial"
    /\ UNCHANGED << params, calls_left, stream, rng, i, year, remaining_budget,
                    cumulative_revenue, revenues, satellite_alive, clear_days, stats,
                    fan_year, cumulative, alive, fan_chart, result, history >>
    /\ UNCHANGED service
    /\ UNCHANGED launch_failed

\* Lines 251-253: the tracked trial fails at launch; its whole row is set.
FanLaunchFail ==
    /\ pc = "fan_trial" /\ fan_i < fan_n_simulations(params)
    /\ \E raw \in Raw :
        /\ Produces(fan_rng, raw)
        /\ launch_fails(params, rng_random(raw))
        /\ stream' = Produced(fan_rng, raw)
        /\ fan_rng' = Advance(fan_rng, raw)
        /\ fan_draws' = Drawn(fan_draws, fan_i + 1, raw)
    /\ yearly_profits' =
          [ yearly_profits EXCEPT ![fan_i + 1] =
              [ y \in DOMAIN @ |-> -total_investment_of(params) ] ]
    /\ fan_i' = fan_i + 1
    /\ UNCHANGED << pc, params, calls_left, rng, mc_locals, stats, fan_year,
                    cumulative, alive, fan_chart, result, history >>
    /\ UNCHANGED service
    /\ UNCHANGED launch_failed

\* Lines 251, 255-257: the tracked trial launches.
FanLaunchOk ==
    /\ pc = "fan_trial" /\ fan_i < fan_n_simulations(params)
    /\ \E raw \in Raw :
        /\ Produces(fan_rng, raw)
        /\ ~launch_fails(params, rng_random(raw))
        /\ stream' = Produced(fan_rng, raw)
        /\ fan_rng' = Advance(fan_rng, raw)
        /\ fan_draws' = Drawn(fan_draws, fan_i + 1, raw)
    /\ cumulative' = -total_investment_of(params)
    /\ alive' = TRUE
    /\ fan_year' = 1
    /\ pc' = "fan_year"
    /\ UNCHANGED << params, calls_left, rng, mc_locals, stats, fan_i,
                    yearly_profits, fan_chart, result, history >>
    /\ UNCHANGED service
    /\ UNCHANGED launch_failed

\* Lines 258-260: a year after the death copies the running value.
FanYearDead ==
    /\ pc = "fan_year" /\ fan_year <= params.mission_duration_years
    /\ ~alive
    /\ yearly_profits' = [yearly_profits EXCEPT ![fan_i + 1][fan_year + 1] = cumulative]
    /\ fan_year' = fan_year + 1
    /\ UNCHANGED << pc, params, calls_left, stream, rng, mc_locals, stats,
                    fan_rng, fan_i, cumulative, alive, fan_draws, fan_chart,
                    result, history >>
    /\ UNCHANGED service
    /\ UNCHANGED launch_failed

\* Lines 261-265: the year of the death charges the operating cost.
FanYearFail ==
    /\ pc = "fan_year" /\ fan_year <= params.mission_duration_years
    /\ alive
    /\ \E raw \in Raw :
        /\ Produces(fan_rng, raw)
        /\ annual_fails(params, rng_random(raw))
        /\ stream' = Produced(fan_rng, raw)
        /\ fan_rng' = Advance(fan_rng, raw)
        /\ fan_draws' = Drawn(fan_draws, fan_i + 1, raw)
    /\ alive' = alive_after_failure
    /\ cumulative' = death_year_value(params, cumulative)
    /\ yearly_profits' = [yearly_profits EXCEPT ![fan_i + 1][fan_year + 1] = cumulative']
    /\ fan_year' = fan_year + 1
    /\ UNCHANGED << pc, params, calls_left, rng, mc_locals, stats, fan_i,
                    fan_chart, result, history >>
    /\ UNCHANGED service
    /\ UNCHANGED launch_failed

\* Line 261: the asset survives the annual failure check.
FanYearSurvive ==
    /\ pc = "fan_year" /\ fan_year <= params.mission_duration_years
    /\ alive
    /\ \E raw \in Raw :
        /\ Produces(fan_rng, raw)
        /\ ~annual_fails(params, rng_random(raw))
        /\ stream' = Produced(fan_rng, raw)
        /\ fan_rng' = Advance(fan_rng, raw)
        /\ fan_draws' = Drawn(fan_draws, fan_i + 1, raw)
    /\ pc' = "fan_clear"
    /\ UNCHANGED << params, calls_left, rng, mc_locals, stats, fan_i, fan_year,
                    cumulative, alive, yearly_profits, fan_chart, result,
                    history >>
    /\ UNCHANGED service
    /\ UNCHANGED launch_failed

\* Lines 266-268: the year's revenue less its operating cost.
FanClearDays ==
    /\ pc = "fan_clear"
    /\ \E raw \in Raw :
        /\ Produces(fan_rng, raw)
        /\ cumulative' = cumulative
              + clear_days_of(params, raw) * params.revenue_per_clear_day_usd
              - params.ops_cost_per_year_usd
        /\ stream' = Produced(fan_rng, raw)
        /\ fan_rng' = Advance(fan_rng, raw)
        /\ fan_draws' = Drawn(fan_draws, fan_i + 1, raw)
    /\ yearly_profits' = [yearly_profits EXCEPT ![fan_i + 1][fan_year + 1] = cumulative']
    /\ fan_year' = fan_year + 1
    /\ pc' = "fan_year"
    /\ UNCHANGED << params, calls_left, rng, mc_locals, stats, fan_i, alive,
                    fan_chart, result, history >>
    /\ UNCHANGED service
    /\ UNCHANGED launch_failed

\* Line 257: the yearly loop of the tracked trial is over.
FanTrialEnd ==
    /\ pc = "fan_year" /\ fan_year = params.mission_duration_years + 1
    /\ fan_i' = fan_i + 1
    /\ pc' = "fan_trial"
    /\ UNCHANGED << params, calls_left, stream, rng, mc_locals, stats, fan_rng,
                    fan_year, cumulative, alive, yearly_profits, fan_draws,
                    fan_chart, result, history >>
    /\ UNCHANGED service
    /\ UNCHANGED launch_failed

\* yearly_profits[:, year]
column(m, y) == [t \in DOMAIN m |-> m[t][y + 1]]

\* Lines 270-281: one point per year index, bands rounded to thousands.
fan_points(m, duration) ==
    [ k \in 1..(duration + 1) |->
        [ year |-> k - 1,
          p10  |-> round_millions(np_percentile(column(m, k - 1), 10), 100),
          p25  |-> round_millions(np_percentile(column(m, k - 1), 25), 100),
          p50  |-> round_millions(np_percentile(column(m, k - 1), 50), 100),
          p75  |-> round_millions(np_percentile(column(m, k - 1), 75), 100),
          p90  |-> round_millions(np_percentile(column(m, k - 1), 90), 100) ] ]

\* Lines 270-281: all tracked trials have run; the bands are derived.
FanReturn ==
    /\ pc = "fan_trial" /\ fan_i = fan_n_simulations(params)
    /\ fan_chart' = fan_points(yearly_profits, params.mission_duration_years)
    /\ fan_rng' = NoValue /\ fan_i' = NoValue /\ fan_year' = NoValue
    /\ cumulative' = NoValue /\ alive' = NoValue
    /\ pc' = "assemble"
    /\ UNCHANGED << params, calls_left, stream, rng, mc_locals, stats,
                    yearly_profits, fan_draws, result, history >>
    /\ UNCHANGED service
    /\ UNCHANGED launch_failed

\* ----------------------------------------------------- compute_simulation
\* Lines 195-206, on the unrounded rate 100 * profitable / n.
verdict_of(profitable, n) ==
    IF 100 * profitable >= 70 * n THEN "Strong Investment"
    ELSE IF 100 * profitable >= 50 * n THEN "Moderate Risk"
    ELSE IF 100 * profitable >= 30 * n THEN "High Risk"
    ELSE "Very High Risk"

\* Lines 191-192 and 217: round(p50 / total_investment * 100, 1), in tenths.
roi_p50_pct_of(p50, investment) ==
    IF investment > 0 THEN round_half_even(10 * p50, investment) ELSE 0

\* Faulty variant of rate_pct: the count is divided by the number of tracked trials.
rate_pct_of_tracked(count, p) ==
    round_half_even(1000 * count, fan_n_simulations(p))

\* Lines 160-161 and 213-214: round(np.mean(...) * 100, 1) for count trials
\* out of n_simulations, in tenths of a percent.
rate_pct(count, p) == round_half_even(1000 * count, p.n_simulations)

\* Lines 208-229: the returned dict.  Rates are in tenths of a percent,
\* percentiles in thousands of USD.
result_of(p, st, fan) ==
    [ n_simulations          |-> p.n_simulations,
      mission_duration_years |-> p.mission_duration_years,
      total_investment_usd   |-> total_investment_of(p),
      profitable_pct         |-> rate_pct(st.profitable, p),
      total_loss_pct         |-> rate_pct(st.total_loss, p),
      verdict                |-> verdict_of(st.profitable, p.n_simulations),
      roi_p50_pct            |-> roi_p50_pct_of(st.p50, total_investment_of(p)),
      percentiles            |->
          [ p5  |-> round_millions(st.p5, 100),
            p10 |-> round_millions(st.p10, 100),
            p25 |-> round_millions(st.p25, 100),
            p50 |-> round_millions(st.p50, 100),
            p75 |-> round_millions(st.p75, 100),
            p90 |-> round_millions(st.p90, 100),
            p95 |-> round_millions(st.p95, 100) ],
      histogram              |-> st.histogram,
      fan_chart              |-> fan ]

\* Lines 190-229: the result is assembled and returned.
Return ==
    /\ pc = "assemble"
    /\ result' = result_of(params, stats, fan_chart)
    /\ history' = IF calls_left > 0
                   THEN [history EXCEPT ![Len(history)].result = result',
                                         ![Len(history)].drawn = fan_draws]
                   ELSE history
    /\ pc' = "done"
    /\ UNCHANGED << params, calls_left, stream, rng, mc_locals, stats, fan_rng,
                    fan_locals, fan_chart >>
    /\ UNCHANGED service
    /\ UNCHANGED launch_failed

\* ------------------------------------------------------------ specification
Next ==
    \/ Call
    \/ MCLaunchFail \/ MCLaunchOk
    \/ MCYearFail \/ MCYearSurvive \/ MCClearDays \/ MCNoise
    \/ MCCloseDown \/ MCTrialEnd
    \/ ComputeStats
    \/ FanCall
    \/ FanLaunchFail \/ FanLaunchOk
    \/ FanYearDead \/ FanYearFail \/ FanYearSurvive \/ FanClearDays
    \/ FanTrialEnd \/ FanReturn
    \/ Return

Spec == Init /\ [][Next]_vars

\* --------------------------------------------------------- repeated calls
\* The client calls compute_simulation again, with the same arguments, after
\* a call has returned.
NextCall ==
    /\ pc = "done" /\ calls_left > 0
    /\ calls_left' = calls_left - 1
    /\ params' = params
    /\ rng' = NoValue /\ i' = NoValue /\ year' = NoValue
    /\ remaining_budget' = NoValue /\ cumulative_revenue' = NoValue
    /\ revenues' = NoValue
    /\ satellite_alive' = NoValue /\ clear_days' = NoValue
    /\ net_profits' = NoValue /\ stats' = NoValue
    /\ fan_rng' = NoValue /\ fan_i' = NoValue /\ fan_year' = NoValue
    /\ cumulative' = NoValue /\ alive' = NoValue /\ yearly_profits' = NoValue
    /\ fan_draws' = NoValue
    /\ fan_chart' = NoValue /\ result' = NoValue
    /\ pc' = "call"
    /\ UNCHANGED << stream, history >>
    /\ UNCHANGED service
    /\ launch_failed' = NoValue

InitReplay ==
    /\ pc = "call"
    /\ params \in ReplayParamSpace
    /\ calls_left = 1
    /\ stream = [s \in Seeds |-> << >>]
    /\ history = << >>
    /\ Idle
    /\ NoService

NextReplay == Next \/ NextCall

SpecReplay == InitReplay /\ [][NextReplay]_vars

\* ------------------------------------------- calls of different sizes
\* The arguments of a call that is followed by a call of another size.
VaryParamSpace ==
    { p \in AllParams : /\ Work(p) <= MaxReplayWork
                        /\ p.launch_failure_prob = 50
                        /\ p.annual_failure_prob = 50 }

\* The client calls compute_simulation again after a call has returned, with
\* the same arguments except for n_simulations.  The larger of the two calls
\* comes first, so that every value the smaller one draws was drawn before.
NextCallResized ==
    /\ pc = "done" /\ calls_left > 0
    /\ calls_left' = calls_left - 1
    /\ \E n \in 1..(params.n_simulations - 1) :
          /\ params' = [params EXCEPT !.n_simulations = n]
          /\ params' \in VaryParamSpace
    /\ rng' = NoValue /\ i' = NoValue /\ year' = NoValue
    /\ remaining_budget' = NoValue /\ cumulative_revenue' = NoValue
    /\ revenues' = NoValue
    /\ satellite_alive' = NoValue /\ clear_days' = NoValue
    /\ net_profits' = NoValue /\ stats' = NoValue
    /\ fan_rng' = NoValue /\ fan_i' = NoValue /\ fan_year' = NoValue
    /\ cumulative' = NoValue /\ alive' = NoValue /\ yearly_profits' = NoValue
    /\ fan_draws' = NoValue
    /\ fan_chart' = NoValue /\ result' = NoValue
    /\ pc' = "call"
    /\ UNCHANGED << stream, history >>
    /\ UNCHANGED service
    /\ launch_failed' = NoValue

InitVary ==
    /\ pc = "call"
    /\ params \in VaryParamSpace
    /\ calls_left = 1
    /\ stream = [s \in Seeds |-> << >>]
    /\ history = << >>
    /\ Idle
    /\ NoService

NextVary == Next \/ NextCallResized

SpecVary == InitVary /\ [][NextVary]_vars

\* ------------------------------------------- calls with different budgets
\* Values of total_budget_usd, the second one below the cost of any mission.
Budgets == {100000, 55000}

\* The client calls compute_simulation again after a call has returned, with
\* the same arguments except for total_budget_usd.
NextCallRebudget ==
    /\ pc = "done" /\ calls_left > 0
    /\ calls_left' = calls_left - 1
    /\ \E b \in Budgets \ {params.total_budget_usd} :
          params' = [params EXCEPT !.total_budget_usd = b]
    /\ rng' = NoValue /\ i' = NoValue /\ year' = NoValue
    /\ remaining_budget' = NoValue /\ cumulative_revenue' = NoValue
    /\ revenues' = NoValue
    /\ satellite_alive' = NoValue /\ clear_days' = NoValue
    /\ net_profits' = NoValue /\ stats' = NoValue
    /\ fan_rng' = NoValue /\ fan_i' = NoValue /\ fan_year' = NoValue
    /\ cumulative' = NoValue /\ alive' = NoValue /\ yearly_profits' = NoValue
    /\ fan_draws' = NoValue
    /\ fan_chart' = NoValue /\ result' = NoValue
    /\ pc' = "call"
    /\ UNCHANGED << stream, history >>
    /\ UNCHANGED service
    /\ launch_failed' = NoValue

NextBudget == Next \/ NextCallRebudget

SpecBudget == InitReplay /\ [][NextBudget]_vars

\* ------------------------------------------------- POST /simulator/run
\* The modelled fields of SimulateRequest: the arguments of compute_simulation
\* and user_id ("" stands for an absent user_id; both are falsy at line 43).
RequestOf(p, user) ==
    [ f \in DOMAIN p \cup {"user_id"} |-> IF f = "user_id" THEN user ELSE p[f] ]

\* Lines 26-40: the arguments the handler passes on.
params_of(r) == [ f \in DOMAIN r \ {"user_id"} |-> r[f] ]

\* Requests within the schema's ranges.
GoodRequests ==
    { RequestOf(p, user) :
        p \in { q \in AllParams : Work(q) <= MaxServiceWork /\ q.n_simulations >= MinSims },
        user \in {"", "u1"} }

\* A field and a value the schema does not allow for it.
BadValues ==
    { << "total_budget_usd", 0 >>, << "launch_cost_usd", -100 >>,
      << "satellite_cost_usd", 0 >>, << "ops_cost_per_year_usd", 0 >>,
      << "launch_failure_prob", 150 >>, << "launch_failure_prob", -50 >>,
      << "annual_failure_prob", 150 >>, << "annual_failure_prob", -50 >>,
      << "revenue_per_clear_day_usd", 0 >>,
      << "clear_days_mu", 0 >>, << "clear_days_mu", 366 >>,
      << "clear_days_sigma", -1 >>,
      << "revenue_growth_pct_per_year", -5 >>,
      << "revenue_growth_pct_per_year", 150 >>,
      << "mission_duration_years", 0 >>, << "mission_duration_years", 21 >>,
      << "n_simulations", 0 >>, << "n_simulations", 50001 >> }

\* Requests with one field out of range.
BadRequests ==
    { [ r EXCEPT ![fv[1]] = fv[2] ] :
        r \in { g \in GoodRequests : /\ g.n_simulations = MinSims
                                     /\ g.mission_duration_years = 1
                                     /\ g.clear_days_sigma = 0
                                     /\ g.launch_failure_prob = 50
                                     /\ g.annual_failure_prob = 50 },
        fv \in BadValues }

\* Faulty variant of valid_request: the probabilities have no upper limit.
valid_request_open_prob(r) ==
    /\ r.total_budget_usd > 0 /\ r.launch_cost_usd > 0
    /\ r.satellite_cost_usd > 0 /\ r.ops_cost_per_year_usd > 0
    /\ r.launch_failure_prob >= 0
    /\ r.annual_failure_prob >= 0
    /\ r.revenue_per_clear_day_usd > 0
    /\ r.clear_days_mu > 0 /\ r.clear_days_mu <= 365
    /\ r.clear_days_sigma >= 0
    /\ r.revenue_growth_pct_per_year >= 0 /\ r.revenue_growth_pct_per_year <= 100
    /\ r.mission_duration_years >= 1 /\ r.mission_duration_years <= 20
    /\ r.n_simulations >= MinSims /\ r.n_simulations <= 50000

\* The Field constraints of SimulateRequest (probabilities and the growth rate
\* in hundredths).
valid_request(r) ==
    /\ r.total_budget_usd > 0 /\ r.launch_cost_usd > 0
    /\ r.satellite_cost_usd > 0 /\ r.ops_cost_per_year_usd > 0
    /\ r.launch_failure_prob >= 0 /\ r.launch_failure_prob <= 100
    /\ r.annual_failure_prob >= 0 /\ r.annual_failure_prob <= 100
    /\ r.revenue_per_clear_day_usd > 0
    /\ r.clear_days_mu > 0 /\ r.clear_days_mu <= 365
    /\ r.clear_days_sigma >= 0
    /\ r.revenue_growth_pct_per_year >= 0 /\ r.revenue_growth_pct_per_year <= 100
    /\ r.mission_duration_years >= 1 /\ r.mission_duration_years <= 20
    /\ r.n_simulations >= MinSims /\ r.n_simulations <= 50000

\* What the framework answers when the body does not fit SimulateRequest.
validation_error == [status |-> 422, detail |-> "validation"]

\* Faulty variant of http_exception: the failure is reported as the client's.
http_exception_client(detail) == [status |-> 400, detail |-> detail]

\* Line 71: HTTPException(status_code=500, detail=str(e)).
http_exception(detail) == [status |-> 500, detail |-> detail]

\* Line 66: return result.
ok_response(res) == [status |-> 200, body |-> res]

\* Faulty variant of after_db_error: the failed insert is not caught where it
\* happens and reaches the handler of line 68.
after_db_error_uncaught(res) == http_exception("db")

\* Lines 63-66: the failed insert is printed and the result returned.
after_db_error(res) == ok_response(res)

\* Lines 45-62: the row of simulation_results.
row_of(r, res) ==
    [ user_id         |-> r.user_id,
      parameters_json |->
          [ total_budget_usd       |-> r.total_budget_usd,
            launch_cost_usd        |-> r.launch_cost_usd,
            satellite_cost_usd     |-> r.satellite_cost_usd,
            launch_failure_prob    |-> r.launch_failure_prob,
            annual_failure_prob    |-> r.annual_failure_prob,
            mission_duration_years |-> r.mission_duration_years,
            n_simulations          |-> r.n_simulations ],
      p50_roi         |-> res.percentiles.p50,
      p90_roi         |-> res.percentiles.p90,
      profitable_pct  |-> res.profitable_pct,
      verdict         |-> res.verdict ]

\* The state of compute_simulation.
compute_vars == << calls_left, stream, rng, mc_locals, stats, fan_rng,
                   fan_locals, fan_chart, result, history, launch_failed >>

\* Line 23: the body fits SimulateRequest and the handler is entered; it
\* calls compute_simulation with the fields of the request (lines 26-40).
ValidateOk ==
    /\ pc = "request" /\ valid_request(request)
    /\ params' = params_of(request)
    /\ pc' = "call"
    /\ UNCHANGED << compute_vars, service >>

\* Line 23: the body does not fit SimulateRequest; the handler is not entered.
ValidateFail ==
    /\ pc = "request" /\ ~valid_request(request)
    /\ response' = validation_error
    /\ pc' = "responded"
    /\ UNCHANGED << params, compute_vars, request, sb, saved >>

\* compute_simulation raises: an array cannot be allocated (lines 70, 245).
Raises ==
    /\ pc \in {"call", "fan_call"}
    /\ pc' = "raised"
    /\ UNCHANGED << params, compute_vars, service >>

\* Lines 68-71: the exception is mapped to HTTP 500.
RespondError ==
    /\ pc = "raised"
    /\ response' = http_exception("error")
    /\ pc' = "responded"
    /\ UNCHANGED << params, compute_vars, request, sb, saved >>

\* Lines 43, 66: nothing is saved without a client or without a user_id.
SaveSkip ==
    /\ pc = "done"
    /\ ~(sb /\ request.user_id # "")
    /\ response' = ok_response(result)
    /\ pc' = "responded"
    /\ UNCHANGED << params, compute_vars, request, sb, saved >>

\* Lines 43-62, 66: the row is inserted.
SaveOk ==
    /\ pc = "done"
    /\ sb /\ request.user_id # ""
    /\ saved' = Append(saved, row_of(request, result))
    /\ response' = ok_response(result)
    /\ pc' = "responded"
    /\ UNCHANGED << params, compute_vars, request, sb >>

\* Lines 43-66: the insert raises.
SaveFails ==
    /\ pc = "done"
    /\ sb /\ request.user_id # ""
    /\ response' = after_db_error(result)
    /\ pc' = "responded"
    /\ UNCHANGED << params, compute_vars, request, sb, saved >>

InitService ==
    /\ pc = "request"
    /\ request \in GoodRequests \cup BadRequests
    /\ params = NoValue
    /\ response = NoValue
    /\ sb \in BOOLEAN
    /\ saved = << >>
    /\ calls_left = 0
    /\ stream = [s \in Seeds |-> << >>]
    /\ history = << >>
    /\ Idle

NextService ==
    \/ ValidateOk \/ ValidateFail
    \/ Next
    \/ Raises \/ RespondError
    \/ SaveSkip \/ SaveOk \/ SaveFails

SpecService == InitService /\ [][NextService]_vars

\* ------------------------------------------------ rates of large batches
\* Lines 160 and 195-216 on their own: the profitable rate of a batch of n
\* trials of which `profitable` had an outcome > 0, as it is reported, and the
\* verdict that goes with it.
Classify ==
    /\ pc = "classify"
    /\ result' = [ n_simulations  |-> params.n_simulations,
                    profitable_pct |-> rate_pct(stats.profitable, params),
                    verdict        |-> verdict_of(stats.profitable,
                                                  params.n_simulations) ]
    /\ pc' = "classified"
    /\ UNCHANGED << params, calls_left, stream, rng, mc_locals, stats, fan_rng,
                    fan_locals, fan_chart, history, launch_failed, service >>

InitVerdict ==
    /\ pc = "classify"
    /\ params \in { [ p EXCEPT !.n_simulations = n ] :
                        p \in { q \in AllParams : /\ q.launch_failure_prob = 50
                                                  /\ q.annual_failure_prob = 50
                                                  /\ q.clear_days_sigma = 0
                                                  /\ q.mission_duration_years = 1
                                                  /\ q.n_simulations = 1 },
                        n \in MinVerdictSims..MaxVerdictSims }
    /\ \E c \in 0..params.n_simulations : stats = [ profitable |-> c ]
    /\ calls_left = 0
    /\ stream = [s \in Seeds |-> << >>]
    /\ history = << >>
    /\ rng = NoValue /\ i = NoValue /\ year = NoValue
    /\ remaining_budget = NoValue /\ cumulative_revenue = NoValue
    /\ revenues = NoValue
    /\ satellite_alive = NoValue /\ clear_days = NoValue
    /\ net_profits = NoValue
    /\ fan_rng = NoValue /\ fan_i = NoValue /\ fan_year = NoValue
    /\ cumulative = NoValue /\ alive = NoValue /\ yearly_profits = NoValue
    /\ fan_draws = NoValue
    /\ fan_chart = NoValue /\ result = NoValue
    /\ launch_failed = NoValue
    /\ NoService

SpecVerdict == InitVerdict /\ [][Classify]_vars

\* ================================================================ claims
RECURSIVE SumSeq(_)
SumSeq(s) == IF s = << >> THEN 0 ELSE Head(s) + SumSeq(Tail(s))

\* The states in which the matrix of the tracked trials exists.
FanRunning == pc \in {"fan_trial", "fan_year", "fan_clear", "assemble", "done"}

\* The second of two calls with the same arguments.
SecondCall == calls_left = 0 /\ Len(history) = 1

\* C1 -- Determinism.  A call creates both generators anew from the fixed
\* seeds, and the second of two calls with identical arguments produces the
\* same outcome array and the same result (rates, percentiles, histogram and
\* fan chart) as the first.
DeterminismC1 ==
    /\ (pc = "mc_trial" /\ i = 0) => (rng.seed = 42 /\ rng.pos = 0)
    /\ (pc = "fan_trial" /\ fan_i = 0) => (fan_rng.seed = 99 /\ fan_rng.pos = 0)
    /\ (SecondCall /\ pc = "fan_call") =>
          (params = history[1].params => net_profits = history[1].outcomes)
    /\ (SecondCall /\ pc = "done") =>
          (params = history[1].params =>
              /\ result.percentiles = history[1].result.percentiles
              /\ result.histogram = history[1].result.histogram
              /\ result.fan_chart = history[1].result.fan_chart
              /\ result = history[1].result)

\* A second call has returned, after a first one whose trials did not all end
\* the same way.
WitnessC1 ==
    /\ SecondCall /\ pc = "done"
    /\ params = history[1].params
    /\ Cardinality(Range(history[1].outcomes)) >= 2
    /\ result = history[1].result

\* C2 -- Launch check.  The step that starts a trial consumes exactly one
\* draw, read as a uniform; when it is below launch_failure_prob the step
\* writes exactly -total_investment as the trial's outcome and ends the trial
\* (the next step starts the next trial or ends the batch: the trial has
\* consumed that one draw and no other); otherwise the trial enters the
\* yearly loop.
LaunchCheckC2 ==
    [][ (pc = "mc_trial" /\ i < params.n_simulations) =>
          /\ rng'.pos = rng.pos + 1
          /\ IF rng_random(rng'.out) < params.launch_failure_prob
             THEN /\ net_profits' =
                        [net_profits EXCEPT ![i + 1] =
                            -(params.launch_cost_usd + params.satellite_cost_usd)]
                  /\ i' = i + 1
                  /\ pc' = "mc_trial"
             ELSE /\ pc' = "mc_year"
                  /\ i' = i
                  /\ net_profits' = net_profits ]_vars

\* Two trials in a row have failed at launch, under a launch risk that lets
\* trials launch as well: one draw each.
WitnessC2 ==
    /\ pc = "mc_trial" /\ i = 2 /\ rng.pos = 2
    /\ params.launch_failure_prob = 50
    /\ net_profits[1] = -50000 /\ net_profits[2] = -50000

\* C3 -- Scalar outcome.  Whenever the yearly loop of a launched trial ends,
\* in whatever year and whether or not the asset died, the outcome written is
\* the sum of the revenues of the years survived, less total_investment, less
\* ops_cost_per_year * mission_duration_years.
ScalarOutcomeC3 ==
    [][ (pc = "mc_year" /\ pc' = "mc_trial") =>
          /\ cumulative_revenue = SumSeq(revenues)
          /\ net_profits'[i + 1] =
                SumSeq(revenues)
                  - (params.launch_cost_usd + params.satellite_cost_usd)
                  - params.ops_cost_per_year_usd * params.mission_duration_years
          /\ i' = i + 1 ]_vars

\* The first trial has ended: its asset earned a year's revenue and then died
\* (five draws: the launch, three in the first year, one in the second).
WitnessC3 ==
    /\ pc = "mc_trial" /\ i = 1 /\ rng.pos = 5
    /\ satellite_alive = FALSE /\ Len(revenues) = 1 /\ revenues[1] > 0
    /\ net_profits[i] = revenues[1] - 50000 - 7000 * params.mission_duration_years

\* The trials of the batch whose outcome has been written.
TrialsDone == IF pc = "mc_trial" THEN 1..i
              ELSE IF pc \in {"mc_year", "mc_clear", "mc_noise"} THEN 1..i
              ELSE IF pc = "fan_call" THEN 1..params.n_simulations
              ELSE {}

\* The tracked trials whose row of the matrix is complete.
TrackedDone == IF pc \in {"fan_trial", "fan_year", "fan_clear"} THEN 1..fan_i
               ELSE IF pc \in {"assemble", "done"} THEN DOMAIN yearly_profits
               ELSE {}

\* C4 -- Degenerate launch risk.  With launch_failure_prob = 1.0 every
\* outcome written is exactly -total_investment, no trial enters the yearly
\* loop, and the result reports seven equal percentiles and profitable_pct = 0.
DegenerateLaunchC4 ==
    params.launch_failure_prob = 100 =>
        /\ \A k \in TrialsDone :
              net_profits[k] = -(params.launch_cost_usd + params.satellite_cost_usd)
        /\ pc \notin {"mc_year", "mc_clear", "mc_noise"}
        /\ pc = "fan_call" =>
              /\ \A q \in {stats.p5, stats.p10, stats.p25, stats.p75,
                           stats.p90, stats.p95} : q = stats.p50
              /\ stats.p50 =
                    -100 * (params.launch_cost_usd + params.satellite_cost_usd)
              /\ stats.profitable = 0
        /\ pc = "done" =>
              /\ \A q \in {result.percentiles.p5, result.percentiles.p10,
                           result.percentiles.p25, result.percentiles.p75,
                           result.percentiles.p90, result.percentiles.p95} :
                    q = result.percentiles.p50
              /\ result.profitable_pct = 0

\* A call of three trials with launch_failure_prob = 1.0 has returned.
WitnessC4 ==
    /\ pc = "done"
    /\ params.launch_failure_prob = 100 /\ params.n_simulations = 3
    /\ result.percentiles.p5 = -50 /\ result.percentiles.p95 = -50
    /\ result.total_loss_pct = 1000

\* C5 -- Certain annual death.  With annual_failure_prob = 1.0 a launched
\* trial, scalar or tracked, is dead after its first year and never reaches
\* the revenue steps: its revenue stays zero, the scalar outcome is
\* -total_investment less the operating cost of the mission, and no slot of a
\* tracked row rises above -total_investment.
CertainDeathC5 ==
    params.annual_failure_prob = 100 =>
        /\ pc \notin {"mc_clear", "mc_noise", "fan_clear"}
        /\ pc = "mc_year" =>
              /\ cumulative_revenue = 0 /\ revenues = << >>
              /\ year <= 1
              /\ year = 1 => ~satellite_alive
        /\ \A k \in TrialsDone :
              net_profits[k] \in
                { -(params.launch_cost_usd + params.satellite_cost_usd),
                  -(params.launch_cost_usd + params.satellite_cost_usd)
                     - params.ops_cost_per_year_usd * params.mission_duration_years }
        /\ pc = "fan_year" =>
              /\ fan_year >= 2 => ~alive
              /\ cumulative \in
                    { -(params.launch_cost_usd + params.satellite_cost_usd),
                      -(params.launch_cost_usd + params.satellite_cost_usd)
                         - params.ops_cost_per_year_usd }
        /\ \A t \in TrackedDone :
              LET ti == params.launch_cost_usd + params.satellite_cost_usd
              IN  /\ yearly_profits[t][1] = -ti
                  /\ \/ \A y \in DOMAIN yearly_profits[t] : yearly_profits[t][y] = -ti
                     \/ \A y \in DOMAIN yearly_profits[t] :
                           y >= 2 => yearly_profits[t][y] =
                                        -ti - params.ops_cost_per_year_usd

\* Under annual_failure_prob = 1.0 a launched scalar trial of a two-year
\* mission has died in its first year, and so has a tracked one.
WitnessC5 ==
    /\ params.annual_failure_prob = 100 /\ params.mission_duration_years = 2
    /\ pc = "fan_trial" /\ fan_i = 1
    /\ yearly_profits[1] = << -50000, -57000, -57000 >>
    /\ stats.total_loss >= 1
    /\ stats.p50 = -100 * (50000 + 2 * 7000)

\* Whether amount x lies in bin b (1-based) of the histogram of a: between
\* the bin's edges, the lower one included, the upper one only in the last bin.
InBin(a, b, x) ==
    /\ bin_edge(a, 30, b - 1) <= 60 * x
    /\ \/ 60 * x < bin_edge(a, 30, b)
       \/ (b = 30 /\ 60 * x = bin_edge(a, 30, b))

\* The sum of the counts of the bins of a histogram.
RECURSIVE SumCounts(_)
SumCounts(h) == IF h = << >> THEN 0 ELSE Head(h).count + SumCounts(Tail(h))

\* C6 -- Histogram completeness.  The histogram has exactly 30 bins whose
\* counts add up to n_simulations; every outcome lies between the edges of
\* exactly one bin, and each bin counts exactly the outcomes between its edges.
HistogramCompleteC6 ==
    /\ pc = "fan_call" =>
          /\ Len(stats.histogram) = 30
          /\ SumCounts(stats.histogram) = params.n_simulations
          /\ \A k \in DOMAIN net_profits :
                Cardinality({b \in 1..30 : InBin(net_profits, b, net_profits[k])}) = 1
          /\ \A b \in 1..30 :
                stats.histogram[b].count =
                   Cardinality({k \in DOMAIN net_profits :
                                   InBin(net_profits, b, net_profits[k])})
    /\ pc = "done" =>
          /\ Len(result.histogram) = 30
          /\ SumCounts(result.histogram) = result.n_simulations

\* Three outcomes, two of them equal to the largest: the first bin holds one
\* and the last bin two.
WitnessC6 ==
    /\ pc = "fan_call" /\ params.n_simulations = 3
    /\ stats.histogram[1].count = 1 /\ stats.histogram[30].count = 2

\* C7 -- Percentile monotonicity of the reported percentile map.
PercentileMonotoneC7 ==
    pc = "done" =>
        LET q == result.percentiles
        IN  /\ q.p5 <= q.p10 /\ q.p10 <= q.p25 /\ q.p25 <= q.p50
            /\ q.p50 <= q.p75 /\ q.p75 <= q.p90 /\ q.p90 <= q.p95

\* A result whose percentiles are not all equal.
WitnessC7 ==
    /\ pc = "done"
    /\ result.percentiles.p5 < result.percentiles.p50
    /\ result.percentiles.p50 < result.percentiles.p95

\* C8 -- Bounds.  The reported profitable_pct and total_loss_pct lie in
\* [0, 100] (tenths of a percent: 0..1000).
RateBoundsC8 ==
    pc = "done" =>
        /\ 0 <= result.profitable_pct /\ result.profitable_pct <= 1000
        /\ 0 <= result.total_loss_pct /\ result.total_loss_pct <= 1000

\* A result with both rates strictly inside the interval.
WitnessC8 ==
    /\ pc = "done"
    /\ 0 < result.profitable_pct /\ result.profitable_pct < 1000
    /\ 0 < result.total_loss_pct /\ result.total_loss_pct < 1000

\* C9 -- Fan-chart year 0.  Slot 0 of every tracked row is -total_investment
\* from the moment the matrix exists, whatever the trial does later, and the
\* point for year 0 reports -total_investment (in thousands of USD) in all
\* five bands.
FanYearZeroC9 ==
    /\ FanRunning =>
          \A t \in DOMAIN yearly_profits :
              yearly_profits[t][1] =
                  -(params.launch_cost_usd + params.satellite_cost_usd)
    /\ pc = "done" =>
          LET f  == result.fan_chart[1]
              ti == params.launch_cost_usd + params.satellite_cost_usd
          IN  /\ f.year = 0
              /\ 1000 * f.p10 = -ti /\ 1000 * f.p25 = -ti /\ 1000 * f.p50 = -ti
              /\ 1000 * f.p75 = -ti /\ 1000 * f.p90 = -ti

\* A fan chart whose later years have moved away from year 0 in both
\* directions.
WitnessC9 ==
    /\ pc = "done" /\ params.mission_duration_years = 2
    /\ result.fan_chart[1].p10 = -50 /\ result.fan_chart[1].p90 = -50
    /\ result.fan_chart[3].p10 < -50 /\ result.fan_chart[3].p90 > -50

\* C10 -- Size of the fan chart.  The matrix has one row per tracked trial,
\* min(n_simulations, cap) of them, the builder returns when that many trials
\* have run, and the fan chart has mission_duration_years + 1 points with the
\* year indices 0, 1, ..., mission_duration_years in this order.
FanChartSizeC10 ==
    LET tracked == IF params.n_simulations <= FAN_CAP
                   THEN params.n_simulations ELSE FAN_CAP
    IN  /\ FanRunning => Len(yearly_profits) = tracked
        /\ pc \in {"fan_trial", "fan_year", "fan_clear"} =>
              /\ fan_i <= tracked
              /\ pc # "fan_trial" => fan_i < tracked
              /\ fan_rng.pos >= fan_i
        /\ pc \in {"assemble", "done"} =>
              /\ Len(fan_chart) = params.mission_duration_years + 1
              /\ \A k \in 1..Len(fan_chart) : fan_chart[k].year = k - 1
              /\ \A t \in DOMAIN yearly_profits :
                    Len(yearly_profits[t]) = params.mission_duration_years + 1

\* A call with more trials than the cap has returned: two tracked rows, three
\* points.
WitnessC10 ==
    /\ pc = "done"
    /\ params.n_simulations = 3 /\ params.mission_duration_years = 2
    /\ Len(yearly_profits) = 2 /\ Len(result.fan_chart) = 3

\* The states in which the batch runs, and those in which the tracked trials
\* run.
BatchRunning == pc \in {"mc_trial", "mc_year", "mc_clear", "mc_noise"}
TrackedRunning == pc \in {"fan_trial", "fan_year", "fan_clear"}

\* Sequence s is the beginning of sequence t.
IsPrefix(s, t) == Len(s) <= Len(t) /\ \A k \in 1..Len(s) : s[k] = t[k]

\* In the second of two calls that differ at most in n_simulations, every
\* tracked trial that also ran in the first call has drawn the values it drew
\* there (all of them once it is complete).
DrawsAgree ==
    (/\ SecondCall
     /\ pc \in {"fan_trial", "fan_year", "fan_clear", "assemble", "done"}
     /\ [params EXCEPT !.n_simulations = history[1].params.n_simulations]
           = history[1].params)
    => \A t \in DOMAIN fan_draws \cap DOMAIN history[1].drawn :
          IF t \in TrackedDone
          THEN fan_draws[t] = history[1].drawn[t]
          ELSE IsPrefix(fan_draws[t], history[1].drawn[t])

\* C11 -- Stream independence.  The batch draws from a generator of seed 42
\* and the tracked trials from another of seed 99; no step of the batch
\* changes the tracked trials' generator or sequence, no step of the tracked
\* trials changes the batch's, and in two calls that differ only in
\* n_simulations tracked trial i draws the same values in both.
StreamIndependenceC11 ==
    [][ /\ BatchRunning =>
              /\ rng.seed = 42
              /\ fan_rng' = fan_rng
              /\ stream'[99] = stream[99]
        /\ TrackedRunning =>
              /\ fan_rng.seed = 99
              /\ rng' = rng
              /\ stream'[42] = stream[42]
        /\ DrawsAgree' ]_vars

\* The second call tracks one trial where the first, of two simulations,
\* tracked two; trial 1 launched and drew the same values in both.
WitnessC11 ==
    /\ SecondCall /\ pc = "done"
    /\ history[1].params.n_simulations = 2 /\ params.n_simulations = 1
    /\ Len(history[1].drawn) = 2 /\ Len(fan_draws) = 1
    /\ Len(fan_draws[1]) >= 3
    /\ fan_draws[1] = history[1].drawn[1]

\* C12 -- The batch.  The outcome array has n_simulations entries from the
\* start; the trials run one after the other on the one generator of seed 42,
\* whose position only grows; a step either leaves the array alone or ends
\* trial i by writing entry i, and no other entry; the array is handed over
\* when exactly n_simulations trials have ended.
BatchRunnerC12 ==
    [][ /\ BatchRunning =>
              /\ Len(net_profits) = params.n_simulations
              /\ i \in 0..params.n_simulations
              /\ pc # "mc_trial" => i < params.n_simulations
              /\ rng.seed = 42
        /\ (BatchRunning /\ BatchRunning') =>
              /\ rng'.seed = rng.seed /\ rng'.pos >= rng.pos
              /\ i' \in {i, i + 1}
              /\ i' = i => net_profits' = net_profits
              /\ i' = i + 1 =>
                    /\ Len(net_profits') = Len(net_profits)
                    /\ \A k \in DOMAIN net_profits :
                          k # i + 1 => net_profits'[k] = net_profits[k]
        /\ (BatchRunning /\ pc' = "fan_call") =>
              /\ i = params.n_simulations
              /\ net_profits' = net_profits
              /\ Len(net_profits') = params.n_simulations ]_vars

\* A batch of three trials has ended: three entries written, one launch draw
\* each at least.
WitnessC12 ==
    /\ pc = "mc_trial" /\ i = 3 /\ params.n_simulations = 3
    /\ Len(net_profits) = 3 /\ rng.pos >= 3
    /\ net_profits[1] # net_profits[3]

\* A request with a parameter outside its allowed range: a monetary field
\* that is not positive, a probability outside [0, 1], clear_days_mu outside
\* (0, 365], a negative clear_days_sigma, a growth rate outside [0, 1],
\* mission_duration_years outside [1, 20], n_simulations below 1 or above
\* 50000.
OutOfRange(r) ==
    \/ r.total_budget_usd <= 0 \/ r.launch_cost_usd <= 0
    \/ r.satellite_cost_usd <= 0 \/ r.ops_cost_per_year_usd <= 0
    \/ r.revenue_per_clear_day_usd <= 0
    \/ r.launch_failure_prob < 0 \/ r.launch_failure_prob > 100
    \/ r.annual_failure_prob < 0 \/ r.annual_failure_prob > 100
    \/ r.clear_days_mu <= 0 \/ r.clear_days_mu > 365
    \/ r.clear_days_sigma < 0
    \/ r.revenue_growth_pct_per_year < 0 \/ r.revenue_growth_pct_per_year > 100
    \/ r.mission_duration_years < 1 \/ r.mission_duration_years > 20
    \/ r.n_simulations < 1 \/ r.n_simulations > 50000

\* C13 -- Parameter violations.  A request with a parameter outside its
\* allowed range never reaches compute_simulation: it is answered with an
\* error, no generator is created, no value is drawn and no trial runs.
RejectedBeforeTrialsC13 ==
    OutOfRange(request) =>
        /\ pc \in {"request", "responded"}
        /\ pc = "responded" =>
              /\ response.status >= 400
              /\ "body" \notin DOMAIN response
        /\ params = NoValue
        /\ Idle
        /\ stream = [s \in Seeds |-> << >>]

\* A request with launch_failure_prob = 1.5 has been answered.
WitnessC13 ==
    /\ pc = "responded"
    /\ request.launch_failure_prob = 150
    /\ response.status = 422
    /\ rng = NoValue /\ net_profits = NoValue

\* C14 -- The service layer.  A request that fails validation is answered
\* with a client error and compute_simulation is not called; an exception
\* raised inside compute_simulation is answered with HTTP 500; an answer
\* carries either the result (status 200) or an error, never both, and is
\* given once.
ServiceMappingC14 ==
    [][ /\ (pc = "request" /\ OutOfRange(request)) =>
              /\ pc' = "responded"
              /\ response'.status \in 400..499
              /\ UNCHANGED << params, compute_vars >>
        /\ pc = "raised" =>
              /\ pc' = "responded"
              /\ response'.status = 500
        /\ pc' = "responded" =>
              /\ response'.status = 200 <=> "body" \in DOMAIN response'
              /\ response'.status # 200 <=> "detail" \in DOMAIN response'
              /\ response'.status = 200 => pc = "done" \/ pc = "responded"
        /\ pc = "responded" => response' = response ]_vars

\* compute_simulation was called with the fields of a valid request and
\* raised; the request was answered with HTTP 500.
WitnessC14 ==
    /\ pc = "responded"
    /\ response.status = 500
    /\ ~OutOfRange(request)
    /\ params.n_simulations = request.n_simulations

\* C15 -- Persistence isolation.  Once compute_simulation has returned, the
\* request is answered with status 200 and exactly the result it returned,
\* whether the row was inserted, the insert raised, or none was attempted.
PersistenceIsolationC15 ==
    [][ pc = "done" =>
            /\ pc' = "responded"
            /\ response' = [status |-> 200, body |-> result]
            /\ result' = result ]_vars

\* A client is configured and the request names a user, yet no row was
\* inserted: the insert raised, and the request was answered with the result.
WitnessC15 ==
    /\ pc = "responded"
    /\ sb /\ request.user_id = "u1"
    /\ saved = << >>
    /\ response.status = 200
    /\ response.body.n_simulations = request.n_simulations

\* C16 -- Total losses and launch failures.  Every trial that fails at
\* launch has an outcome of at most -total_investment, so the number of
\* outcomes counted as total losses is at least the number of launch-failed
\* trials, in the array as it fills, in the statistics and in the reported
\* total_loss_pct (rounded to a tenth of a percent).
TotalLossFloorC16 ==
    /\ BatchRunning =>
          Cardinality({ k \in 1..i : net_profits[k] <=
                           -(params.launch_cost_usd + params.satellite_cost_usd) })
             >= launch_failed
    /\ pc = "fan_call" =>
          /\ Cardinality({ k \in DOMAIN net_profits : net_profits[k] <=
                             -(params.launch_cost_usd + params.satellite_cost_usd) })
                >= launch_failed
          /\ stats.total_loss >= launch_failed
    /\ pc = "done" =>
          2 * params.n_simulations * result.total_loss_pct
             >= 2000 * launch_failed - params.n_simulations

\* One of three trials failed at launch and another one is a total loss as
\* well.
WitnessC16 ==
    /\ pc = "done" /\ params.n_simulations = 3
    /\ launch_failed = 1
    /\ result.total_loss_pct = 667

\* C17 -- Verdict classification.  In every result the verdict agrees with
\* the profitable_pct of the same result (in tenths of a percent): 'Strong
\* Investment' iff it is >= 70, 'Moderate Risk' iff it is in [50, 70), 'High
\* Risk' iff it is in [30, 50), 'Very High Risk' iff it is < 30.
VerdictConsistentC17 ==
    pc \in {"done", "classified"} =>
        /\ result.verdict = "Strong Investment" <=> result.profitable_pct >= 700
        /\ result.verdict = "Moderate Risk" <=>
              (500 <= result.profitable_pct /\ result.profitable_pct < 700)
        /\ result.verdict = "High Risk" <=>
              (300 <= result.profitable_pct /\ result.profitable_pct < 500)
        /\ result.verdict = "Very High Risk" <=> result.profitable_pct < 300

\* C18 -- Numeric degeneracy.  When all outcomes are equal (a range of zero
\* width, as when every trial fails at launch) no histogram is derived and
\* none is returned: the call ends with a computation error.
DegeneracyReportedC18 ==
    /\ (pc = "fan_call" /\ \A j, k \in DOMAIN net_profits :
                               net_profits[j] = net_profits[k])
          => "histogram" \notin DOMAIN stats
    /\ (pc = "done" /\ launch_failed = params.n_simulations)
          => "histogram" \notin DOMAIN result

\* C19 -- Dead is absorbing.  A year that finds the asset alive starts with
\* one uniform draw, and a draw below annual_failure_prob makes the asset
\* dead without revenue.  A dead asset stays dead for the rest of its trial:
\* no step of the trial draws a value, adds revenue or makes it alive again;
\* the scalar trial ends at once and the tracked trial copies its running
\* value into each remaining year.
DeadAbsorbingC19 ==
    [][ /\ (pc = "mc_year" /\ year < params.mission_duration_years
                           /\ satellite_alive) =>
              /\ rng'.pos = rng.pos + 1
              /\ IF rng_random(rng'.out) < params.annual_failure_prob
                 THEN /\ ~satellite_alive' /\ pc' = "mc_year" /\ i' = i
                      /\ cumulative_revenue' = cumulative_revenue
                 ELSE /\ satellite_alive' /\ pc' = "mc_clear"
        /\ (pc \in {"mc_year", "mc_clear", "mc_noise"} /\ ~satellite_alive) =>
              /\ pc = "mc_year"
              /\ rng' = rng
              /\ cumulative_revenue' = cumulative_revenue
              /\ ~satellite_alive'
              /\ i' = i + 1 /\ pc' = "mc_trial"
        /\ (pc = "fan_year" /\ fan_year <= params.mission_duration_years
                            /\ alive) =>
              /\ fan_rng'.pos = fan_rng.pos + 1
              /\ IF rng_random(fan_rng'.out) < params.annual_failure_prob
                 THEN /\ ~alive' /\ pc' = "fan_year" /\ fan_i' = fan_i
                      /\ cumulative' = cumulative - params.ops_cost_per_year_usd
                 ELSE /\ alive' /\ pc' = "fan_clear"
        /\ (pc \in {"fan_year", "fan_clear"} /\ ~alive) =>
              /\ pc = "fan_year"
              /\ fan_rng' = fan_rng
              /\ cumulative' = cumulative
              /\ ~alive'
              /\ IF fan_year <= params.mission_duration_years
                 THEN /\ fan_i' = fan_i /\ fan_year' = fan_year + 1
                      /\ yearly_profits'[fan_i + 1][fan_year + 1] = cumulative
                 ELSE fan_i' = fan_i + 1 /\ pc' = "fan_trial" ]_vars

\* A tracked trial of a two-year mission that could have survived died in
\* its first year, and its second year copied the value.
WitnessC19 ==
    /\ pc = "fan_year" /\ fan_year = 3 /\ ~alive
    /\ params.mission_duration_years = 2 /\ params.annual_failure_prob = 50
    /\ yearly_profits[fan_i + 1][2] = -57000
    /\ yearly_profits[fan_i + 1][3] = -57000

\* (1 + rate) ^ y as a factor in hundredths, rate in hundredths.
RECURSIVE growth_factor(_, _)
growth_factor(rate, y) ==
    IF y = 0 THEN 100 ELSE ((100 + rate) * growth_factor(rate, y - 1)) \div 100

\* C20 -- the revenue of a scalar year.  The clear days of a year are the
\* normal draw or, when that is negative, zero.  The year then adds
\* clear_days * revenue_per_clear_day * growth_factor * noise to the
\* cumulative revenue, with growth_factor = (1 + growth) ^ year counted from
\* 0 (the first year's factor is 1) and noise between 0.85 and 1.15; the
\* amount added is never negative, and the cumulative revenue never decreases
\* within a trial.
YearRevenueC20 ==
    [][ /\ pc = "mc_clear" =>
              /\ clear_days' >= 0
              /\ \E z \in {standard_normal(rng'.out)} :
                    LET draw == params.clear_days_mu
                                    + params.clear_days_sigma * z
                    IN  clear_days' = IF draw < 0 THEN 0 ELSE draw
        /\ pc = "mc_noise" =>
              LET added == cumulative_revenue' - cumulative_revenue
                  full  == (clear_days * params.revenue_per_clear_day_usd
                              * growth_factor(params.revenue_growth_pct_per_year,
                                              year)) \div 100
              IN  /\ year \in 0..(params.mission_duration_years - 1)
                  /\ year = 0 =>
                        full = clear_days * params.revenue_per_clear_day_usd
                  /\ \E noise \in 85..115 : added = (full * noise) \div 100
                  /\ added >= 0
                  /\ revenues' = Append(revenues, added)
                  /\ year' = year + 1
        /\ (pc \in {"mc_year", "mc_clear", "mc_noise"} /\ i' = i) =>
              cumulative_revenue' >= cumulative_revenue ]_vars

\* A trial whose first year had a negative normal draw, clamped to no clear
\* day and no revenue, and whose second year earned three clear days at twice
\* the first year's rate with the noise factor 0.85.
WitnessC20 ==
    /\ pc = "mc_year" /\ year = 2 /\ satellite_alive
    /\ params.clear_days_sigma = 1
    /\ revenues = << 0, 117300 >>
    /\ cumulative_revenue = 117300

\* C21 -- the slots of a tracked trial around its death.  The year in which
\* a launched tracked trial dies writes the previous slot less one year's
\* operating cost; every later year writes the same value again, so all
\* slots from the year of the death on are equal; no other slot changes.
\* A tracked trial that fails at launch has -total_investment in every slot.
TrackedDeathC21 ==
    [][ /\ (pc = "fan_year" /\ alive /\ ~alive') =>
              /\ yearly_profits'[fan_i + 1][fan_year + 1] =
                    yearly_profits[fan_i + 1][fan_year]
                        - params.ops_cost_per_year_usd
              /\ \A t \in DOMAIN yearly_profits :
                 \A y \in DOMAIN yearly_profits[t] :
                    (t # fan_i + 1 \/ y # fan_year + 1) =>
                        yearly_profits'[t][y] = yearly_profits[t][y]
        /\ (pc = "fan_year" /\ ~alive) =>
              /\ \E k \in 1..(fan_year - 1) :
                    /\ yearly_profits[fan_i + 1][k + 1] =
                          yearly_profits[fan_i + 1][k]
                              - params.ops_cost_per_year_usd
                    /\ \A j \in k..(fan_year - 1) :
                          yearly_profits[fan_i + 1][j + 1] =
                              yearly_profits[fan_i + 1][k + 1]
              /\ fan_year <= params.mission_duration_years =>
                    /\ yearly_profits'[fan_i + 1][fan_year + 1] =
                          yearly_profits[fan_i + 1][fan_year]
                    /\ \A t \in DOMAIN yearly_profits :
                       \A y \in DOMAIN yearly_profits[t] :
                          (t # fan_i + 1 \/ y # fan_year + 1) =>
                              yearly_profits'[t][y] = yearly_profits[t][y]
        /\ (pc = "fan_trial" /\ pc' = "fan_trial" /\ fan_i' = fan_i + 1) =>
              /\ Len(yearly_profits'[fan_i + 1]) =
                    params.mission_duration_years + 1
              /\ \A y \in DOMAIN yearly_profits'[fan_i + 1] :
                    yearly_profits'[fan_i + 1][y] = -total_investment_of(params)
              /\ \A t \in DOMAIN yearly_profits :
                    t # fan_i + 1 => yearly_profits'[t] = yearly_profits[t] ]_vars

\* Two tracked trials of a two-year mission: the first launched and died in
\* its first year, the second failed at launch.
WitnessC21 ==
    /\ pc = "fan_trial" /\ fan_i = 2
    /\ params.launch_failure_prob = 50 /\ params.annual_failure_prob = 50
    /\ yearly_profits[1] = << -50000, -57000, -57000 >>
    /\ yearly_profits[2] = << -50000, -50000, -50000 >>

\* C22 -- the tracked trial follows the scalar lifecycle: each year a tracked
\* trial survives adds clear_days * revenue_per_clear_day * growth_factor *
\* noise, less the year's operating cost, to the running cumulative profit,
\* with growth_factor = (1 + growth) ^ (year - 1) for the tracked years
\* 1..mission_duration_years and noise between 0.85 and 1.15.
TrackedLifecycleC22 ==
    [][ pc = "fan_clear" =>
          LET z     == standard_normal(fan_rng'.out)
              draw  == params.clear_days_mu + params.clear_days_sigma * z
              days  == IF draw < 0 THEN 0 ELSE draw
              full  == (days * params.revenue_per_clear_day_usd
                          * growth_factor(params.revenue_growth_pct_per_year,
                                          fan_year - 1)) \div 100
          IN  \E noise \in 85..115 :
                  cumulative' = cumulative + (full * noise) \div 100
                                    - params.ops_cost_per_year_usd ]_vars

\* C23 as stated -- operating cost counted twice: when the asset of a scalar
\* trial died before the final mission year, the operating cost deducted from
\* the trial's outcome (what separates the outcome from revenue less
\* total_investment) exceeds ops_cost_per_year * mission_duration_years.
DoubleCountedC23 ==
    [][ (pc = "mc_year" /\ ~satellite_alive
            /\ year < params.mission_duration_years) =>
          cumulative_revenue - total_investment_of(params) - net_profits'[i + 1]
              > params.ops_cost_per_year_usd * params.mission_duration_years ]_vars

\* C23 -- operating cost in the outcome of a trial that died early.  When the
\* asset of a scalar trial died before the final mission year, the operating
\* cost deducted from the trial's outcome is exactly ops_cost_per_year *
\* mission_duration_years; the deductions of the yearly loop (one year's cost
\* per year started, a tenth of it at close-down) are made on
\* remaining_budget alone, which the outcome does not read.
OpsChargedOnceC23 ==
    [][ (pc = "mc_year" /\ ~satellite_alive
            /\ year < params.mission_duration_years) =>
          /\ cumulative_revenue - total_investment_of(params)
                  - net_profits'[i + 1]
                = params.ops_cost_per_year_usd * params.mission_duration_years
          /\ remaining_budget' =
                params.total_budget_usd - total_investment_of(params)
                    - params.ops_cost_per_year_usd * year
                    - params.ops_cost_per_year_usd \div 10
          /\ \A k \in DOMAIN net_profits :
                k # i + 1 => net_profits'[k] = net_profits[k] ]_vars

\* The asset of the first trial of a two-year mission died in its first year:
\* the outcome carries two years of operating cost, the budget one year and
\* the close-down charge.
WitnessC23 ==
    /\ pc = "mc_trial" /\ i = 1 /\ launch_failed = 0
    /\ year = 1 /\ satellite_alive = FALSE
    /\ params.mission_duration_years = 2
    /\ revenues = << >>
    /\ net_profits[1] = -64000
    /\ remaining_budget = 42300

\* C24 -- the two rates.  The statistics are taken over the whole outcome
\* array, one outcome per trial: the profitable trials are those with an
\* outcome above zero, the total losses those with an outcome of at most
\* -total_investment; no trial is in both sets, so the two counts add up to
\* at most n_simulations (the rates, 100 * count / n_simulations, to at most
\* 100), and the result reports each rate rounded to a tenth.
RatesFromArrayC24 ==
    /\ pc = "fan_call" =>
          LET won  == { k \in 1..params.n_simulations : net_profits[k] > 0 }
              lost == { k \in 1..params.n_simulations :
                          net_profits[k] <= -(params.launch_cost_usd
                                                + params.satellite_cost_usd) }
          IN  /\ DOMAIN net_profits = 1..params.n_simulations
              /\ stats.profitable = Cardinality(won)
              /\ stats.total_loss = Cardinality(lost)
              /\ won \cap lost = {}
              /\ 100 * stats.profitable + 100 * stats.total_loss
                    <= 100 * params.n_simulations
    /\ pc = "done" =>
          /\ stats.profitable + stats.total_loss <= params.n_simulations
          /\ result.profitable_pct =
                round_half_even(1000 * stats.profitable, params.n_simulations)
          /\ result.total_loss_pct =
                round_half_even(1000 * stats.total_loss, params.n_simulations)

\* Three outcomes: one profitable, one a total loss, one between the two.
WitnessC24 ==
    /\ pc = "fan_call" /\ params.n_simulations = 3
    /\ stats.profitable = 1 /\ stats.total_loss = 1
    /\ \E k \in 1..3 : net_profits[k] < 0 /\ net_profits[k] > -50000

\* C25 -- histogram bins, for every run: the 30 bins are contiguous and of
\* equal width, the lower edge of the first is the smallest outcome and the
\* upper edge of the last is the largest outcome, and a bin is flagged
\* is_profit exactly when its lower edge is above zero.  (Edges are in
\* 1/(2 * HIST_BINS) USD.)
HistogramEdgesC25 ==
    pc = "fan_call" =>
        LET edge(k) == bin_edge(net_profits, HIST_BINS, k)
            h       == stats.histogram
        IN  /\ Len(h) = HIST_BINS
            /\ edge(0) = 2 * HIST_BINS * SeqMin(net_profits)
            /\ edge(HIST_BINS) = 2 * HIST_BINS * SeqMax(net_profits)
            /\ \A b \in 1..HIST_BINS :
                  /\ edge(b) - edge(b - 1) = edge(1) - edge(0)
                  /\ h[b].bin_start = round_millions(edge(b - 1), 2 * HIST_BINS)
                  /\ h[b].bin_end = round_millions(edge(b), 2 * HIST_BINS)
                  /\ h[b].is_profit <=> edge(b - 1) > 0
            /\ \A b \in 1..(HIST_BINS - 1) : h[b].bin_end = h[b + 1].bin_start

\* C26 -- total_budget_usd influences no output.  A second call that differs
\* from the first in total_budget_usd alone writes the same outcome array,
\* derives the same statistics and returns the same result, although the
\* remaining_budget of its trials differs.
BudgetIgnoredC26 ==
    (Len(history) = 1 /\ calls_left = 0
        /\ params.total_budget_usd # history[1].params.total_budget_usd) =>
        /\ [params EXCEPT !.total_budget_usd = 0] =
              [history[1].params EXCEPT !.total_budget_usd = 0]
        /\ pc = "fan_call" => net_profits = history[1].outcomes
        /\ pc = "done" => result = history[1].result

\* The second call, on a budget below the cost of the mission, has returned;
\* in both calls the asset of the only trial died in the first of two years.
WitnessC26 ==
    /\ pc = "done" /\ Len(history) = 1 /\ calls_left = 0
    /\ params.total_budget_usd = 55000
    /\ history[1].params.total_budget_usd = 100000
    /\ params.mission_duration_years = 2
    /\ launch_failed = 0
    /\ result.profitable_pct = 0
    /\ history[1].outcomes = << -64000 >>

\* C27 -- the floor of the scalar outcome.  No outcome written is below
\* -(total_investment + ops_cost_per_year * mission_duration_years).  A trial
\* that fails at launch is written as exactly -total_investment; a launched
\* trial that ends without any revenue is written as exactly the floor, which
\* is strictly below the outcome of a launch failure.
OutcomeFloorC27 ==
    [][ LET ti    == params.launch_cost_usd + params.satellite_cost_usd
            floor == -(ti + params.ops_cost_per_year_usd
                              * params.mission_duration_years)
        IN  /\ BatchRunning => \A k \in 1..i : net_profits[k] >= floor
            /\ (BatchRunning /\ pc' \in {"mc_trial", "fan_call"}) =>
                  \A k \in 1..params.n_simulations : net_profits'[k] >= floor
            /\ (pc = "mc_trial" /\ pc' = "mc_trial") =>
                  net_profits'[i + 1] = -ti
            /\ (pc = "mc_year" /\ pc' = "mc_trial"
                    /\ cumulative_revenue = 0) =>
                  /\ net_profits'[i + 1] = floor
                  /\ net_profits'[i + 1] < -ti ]_vars

\* Two trials of a one-year mission: the first failed at launch, the asset of
\* the second died in its only year.
WitnessC27 ==
    /\ pc = "mc_trial" /\ i = 2 /\ launch_failed = 1
    /\ params.mission_duration_years = 1
    /\ net_profits[1] = -50000
    /\ net_profits[2] = -57000
    /\ revenues = << >>

\* C28 -- prefix stability of the outcome array.  In the second of two calls
\* that differ only in n_simulations, the second being the smaller, every
\* outcome written so far equals the outcome the larger call wrote at the
\* same index, and the array handed over is the beginning of the larger
\* call's array.
PrefixStableC28 ==
    (/\ Len(history) = 1 /\ calls_left = 0
     /\ params.n_simulations < history[1].params.n_simulations
     /\ [params EXCEPT !.n_simulations = history[1].params.n_simulations]
           = history[1].params)
    => /\ BatchRunning =>
             \A k \in 1..i : net_profits[k] = history[1].outcomes[k]
       /\ pc = "fan_call" =>
             /\ Len(net_profits) = params.n_simulations
             /\ net_profits =
                   SubSeq(history[1].outcomes, 1, params.n_simulations)

\* The second call ran one trial where the first ran two; the trial launched
\* in both and has the same outcome, and the first call's second trial has
\* another.
WitnessC28 ==
    /\ pc = "fan_call" /\ Len(history) = 1 /\ calls_left = 0
    /\ history[1].params.n_simulations = 2 /\ params.n_simulations = 1
    /\ launch_failed = 0
    /\ net_profits = << history[1].outcomes[1] >>
    /\ history[1].outcomes[2] # history[1].outcomes[1]

\* The draws the scalar trial in progress has made, from what it has done.
trial_draws_so_far ==
    IF pc = "mc_trial" THEN 0
    ELSE 1 + 3 * Len(revenues)
           + (IF satellite_alive THEN 0 ELSE 1)
           + (IF pc = "mc_clear" THEN 1 ELSE IF pc = "mc_noise" THEN 2 ELSE 0)

\* An upper bound of the steps the batch still has to take: a trial takes one
\* step per draw and one more to write its outcome.
batch_steps_left ==
    (params.n_simulations - i) * (2 + 3 * params.mission_duration_years)
        - trial_draws_so_far

\* C29 -- the draws of a scalar trial.  A trial starts with one launch draw.
\* Each year the asset survives makes exactly three draws in the order
\* failure check (a uniform), clear days (a normal), noise (a uniform); the
\* year of the death makes one draw, the failure check; once the asset is
\* dead, or the years are over, the trial makes none.  A trial so makes
\* between 1 and 1 + 3 * mission_duration_years draws, the batch never more
\* than n_simulations * (1 + 3 * mission_duration_years); and the batch ends,
\* because every step of it uses up at least one of the steps it has left,
\* at most 2 + 3 * mission_duration_years for each trial not yet ended.
DrawOrderC29 ==
    [][ LET per == 1 + 3 * params.mission_duration_years
        IN  /\ BatchRunning =>
                  /\ trial_draws_so_far <= per
                  /\ pc # "mc_trial" => trial_draws_so_far >= 1
                  /\ rng.pos >= i + trial_draws_so_far
                  /\ rng.pos <= i * per + trial_draws_so_far
                  /\ rng.pos <= params.n_simulations * per
            /\ (pc = "mc_trial" /\ BatchRunning') =>
                  /\ rng'.pos = rng.pos + 1
                  /\ (rng_random(rng'.out) < params.launch_failure_prob)
                        <=> pc' = "mc_trial"
            /\ pc = "mc_year" =>
                  /\ year = Len(revenues) + (IF satellite_alive THEN 0 ELSE 1)
                  /\ IF satellite_alive /\ year < params.mission_duration_years
                     THEN /\ rng'.pos = rng.pos + 1
                          /\ (rng_random(rng'.out) < params.annual_failure_prob)
                                <=> pc' = "mc_year"
                          /\ pc' \in {"mc_year", "mc_clear"}
                     ELSE /\ rng' = rng
                          /\ pc' = "mc_trial" /\ i' = i + 1
            /\ pc = "mc_clear" =>
                  /\ rng'.pos = rng.pos + 1
                  /\ clear_days' \in
                        {0, params.clear_days_mu + params.clear_days_sigma
                                               * standard_normal(rng'.out)}
                  /\ pc' = "mc_noise"
            /\ pc = "mc_noise" =>
                  /\ rng'.pos = rng.pos + 1
                  /\ cumulative_revenue' - cumulative_revenue =
                        year_revenue_of(params, year, clear_days,
                                        85 + (30 * rng_random(rng'.out)) \div 100)
                  /\ pc' = "mc_year" /\ year' = year + 1
            /\ (BatchRunning /\ pc' = "fan_call") =>
                  /\ rng.pos >= params.n_simulations
                  /\ rng.pos <= params.n_simulations * per
            /\ (BatchRunning /\ BatchRunning') =>
                  /\ batch_steps_left >= 0
                  /\ batch_steps_left' < batch_steps_left ]_vars

\* A trial of a two-year mission whose asset survived both years has ended
\* after seven draws.
WitnessC29 ==
    /\ pc = "mc_trial" /\ i = 1 /\ launch_failed = 0
    /\ params.mission_duration_years = 2
    /\ satellite_alive /\ Len(revenues) = 2
    /\ rng.pos = 7

\* C30 -- strict failure checks.  With launch_failure_prob = 0 no scalar and
\* no tracked trial fails at launch: every trial that starts enters its
\* yearly loop.  With annual_failure_prob = 0 the asset of a launched trial
\* is alive in every year: each of the mission_duration_years years goes on
\* to its revenue step, the scalar trial ends with one revenue per year and
\* never through the close-down, and the tracked trial writes each slot as
\* the previous one plus the year's revenue less the operating cost.
StrictChecksC30 ==
    [][ /\ params.launch_failure_prob = 0 =>
              /\ (pc = "mc_trial" /\ BatchRunning') => pc' = "mc_year"
              /\ BatchRunning => launch_failed = 0
              /\ (pc = "fan_trial" /\ TrackedRunning') => pc' = "fan_year"
        /\ params.annual_failure_prob = 0 =>
              /\ pc = "mc_year" =>
                    /\ satellite_alive /\ year = Len(revenues)
                    /\ IF year < params.mission_duration_years
                       THEN pc' = "mc_clear"
                       ELSE /\ Len(revenues) = params.mission_duration_years
                            /\ \A y \in DOMAIN revenues : revenues[y] >= 0
                            /\ pc' = "mc_trial"
              /\ pc = "mc_noise" => Len(revenues') = Len(revenues) + 1
              /\ pc = "fan_year" =>
                    /\ alive
                    /\ IF fan_year <= params.mission_duration_years
                       THEN pc' = "fan_clear"
                       ELSE pc' = "fan_trial"
              /\ pc = "fan_clear" =>
                    /\ \E days \in 0..(params.clear_days_mu
                                          + params.clear_days_sigma) :
                          yearly_profits'[fan_i + 1][fan_year + 1] =
                              yearly_profits[fan_i + 1][fan_year]
                                + days * params.revenue_per_clear_day_usd
                                - params.ops_cost_per_year_usd
                    /\ fan_year' = fan_year + 1 ]_vars

\* A call without any risk has returned: no launch failed, every outcome is
\* a profit, and the first tracked trial earned two clear days in each of its
\* two years.
WitnessC30 ==
    /\ pc = "done"
    /\ params.launch_failure_prob = 0 /\ params.annual_failure_prob = 0
    /\ params.mission_duration_years = 2
    /\ launch_failed = 0
    /\ result.profitable_pct = 1000
    /\ yearly_profits[1] = << -50000, -11000, 28000 >>

=============================================================================
